---- MODULE Spec2Model ----
(***************************************************************************)
(* Model of the DU Status Checker (src/app.py): one Streamlit script run   *)
(* per user action.  A run loads the configuration, renders the widgets,   *)
(* and, when the button was pressed, fetches a status per identifier,      *)
(* looks up and renders each identifier, and asks the LLM for an analysis. *)
(*                                                                         *)
(* Text the program splits or trims (the text area, the identifiers) is a  *)
(* sequence of one-character strings.  Python values that flow through the *)
(* program (JSON bodies, error strings, names) are records                 *)
(*   [t |-> type, s |-> text, e |-> exception text, d |-> dict fields].    *)
(* `events` is the observable trace of the current run: every Streamlit    *)
(* element rendered and every HTTP / OpenAI request issued, in order.      *)
(***************************************************************************)
EXTENDS Naturals, Sequences, FiniteSets

VARIABLES env, jsonErrIsRequestException, pc, du_input, button, config,
          du_ids, i, results, statuses, k, collected_data, events

vars == <<env, jsonErrIsRequestException, pc, du_input, button, config,
          du_ids, i, results, statuses, k, collected_data, events>>

\* Longest text the user types into the text area.
MaxLen == 3

\* ------------------------------------------------------------------ values

Whitespace == {" "}
Chars == {",", " ", "a", "b"}

NoFields == [f \in {} |-> ""]
NoId == <<>>

PyStr(s, e) == [t |-> "str", s |-> s, e |-> e, d |-> NoFields]
PyDict(d) == [t |-> "dict", s |-> "", e |-> "", d |-> d]
PyList == [t |-> "list", s |-> "", e |-> "", d |-> NoFields]
PyNone == [t |-> "none", s |-> "", e |-> "", d |-> NoFields]
\* A response body that is not JSON.
Malformed == [t |-> "malformed", s |-> "", e |-> "", d |-> NoFields]

\* What the network does with one request: the transport fails (err: a
\* refused connection and a timeout are both RequestExceptions out of
\* requests.get and take the same path), or a response with a status code
\* and a body arrives.
Response(err, code, body) == [err |-> err, code |-> code, body |-> body]
NoResponse == Response("", 0, PyNone)

StatusResponses ==
  { Response("ConnectionError", 0, PyNone),
    Response("Timeout", 0, PyNone),
    Response("", 500, PyNone),
    Response("", 200, Malformed),
    Response("", 200, PyList),
    Response("", 200, PyDict([BIFLOW |-> "active"])) }

NameResponses ==
  { Response("Timeout", 0, PyNone),
    Response("", 404, PyNone),
    Response("", 200, Malformed),
    Response("", 200, PyList),
    Response("", 200, PyDict(NoFields)),
    Response("", 200, PyDict([name |-> "Router-A"])) }

\* The chat completion: an openai.error.OpenAIError (API error, connection
\* error), a reply without the expected 'choices' shape, or a reply.
ChatResponses ==
  { Response("OpenAIError", 0, PyNone),
    Response("", 200, PyDict(NoFields)),
    Response("", 200, PyDict([content |-> "- 1639: BIFLOW active"])) }

\* ------------------------------------------------------------- dictionaries
\* A Python dict: its keys in insertion order and its values.

EmptyDict == [keys |-> <<>>, val |-> [x \in {} |-> PyNone]]

Range(seq) == {seq[n] : n \in DOMAIN seq}

\* d[key] = v keeps a present key where it is and replaces its value.
DictSetDefault(d, key, v) ==
  IF key \in Range(d.keys) THEN d
  ELSE [keys |-> Append(d.keys, key),
        val |-> [x \in DOMAIN d.val \cup {key} |-> IF x = key THEN v ELSE d.val[x]]]

DictSet(d, key, v) ==
  [keys |-> IF key \in Range(d.keys) THEN d.keys ELSE Append(d.keys, key),
   val |-> [x \in DOMAIN d.val \cup {key} |-> IF x = key THEN v ELSE d.val[x]]]

\* ------------------------------------------------------------------ strings

RECURSIVE lstrip(_)
lstrip(s) == IF s # <<>> /\ Head(s) \in Whitespace THEN lstrip(Tail(s)) ELSE s

RECURSIVE rstrip(_)
rstrip(s) ==
  IF s # <<>> /\ s[Len(s)] \in Whitespace THEN rstrip(SubSeq(s, 1, Len(s) - 1)) ELSE s

\* str.strip()
strip(s) == rstrip(lstrip(s))

\* str.split(","): always at least one part; parts may be empty.
RECURSIVE split(_)
split(s) ==
  LET commas == {p \in DOMAIN s : s[p] = ","}
  IN IF commas = {} THEN <<s>>
     ELSE LET p == CHOOSE q \in commas : \A r \in commas : q <= r
          IN <<SubSeq(s, 1, p - 1)>> \o split(SubSeq(s, p + 1, Len(s)))

\* -------------------------------------------------------------- environment

Unset == [set |-> FALSE, v |-> ""]
EnvVal(v) == [set |-> TRUE, v |-> v]

EnvVars == {"OPENAI_API_KEY", "BASE_URL", "DEFAULT_POINTS"}

\* The process environments considered: each required variable unset, empty
\* or set; DEFAULT_POINTS unset (the default applies) or not numeric.
Envs ==
  { e \in [EnvVars -> {Unset, EnvVal(""), EnvVal("sk-key"), EnvVal("http://api"),
                       EnvVal("12"), EnvVal("abc")}] :
      /\ e["OPENAI_API_KEY"] \in {Unset, EnvVal(""), EnvVal("sk-key")}
      /\ e["BASE_URL"] \in {Unset, EnvVal(""), EnvVal("http://api")}
      /\ e["DEFAULT_POINTS"] \in {Unset, EnvVal("abc")} }

\* One element of the run's trace.  kind "st" is a rendered Streamlit element
\* (what: which call), kind "http" / "openai" a request (what: which endpoint,
\* resp: what came back, val: what the caller got out of it).  line is the
\* line of src/app.py that makes the call, id the identifier it is about.
Ev(kind, what, line, id, resp, val) ==
  [kind |-> kind, what |-> what, line |-> line, id |-> id, resp |-> resp, val |-> val]
St(what, line, id, val) == Ev("st", what, line, id, NoResponse, val)

NoConfig == [loaded |-> FALSE, OPENAI_API_KEY |-> "", BASE_URL |-> "", DEFAULT_POINTS |-> 0]

\* get_env_variable without the st.stop(): reports and returns the empty value.
get_env_variable_no_stop(e, var_name) ==
  LET value == e[var_name]
  IN IF ~value.set \/ value.v = ""
     THEN [stop |-> FALSE, value |-> "",
           events |-> <<St("error", 13, NoId, PyStr("Missing environment variable", var_name))>>]
     ELSE [stop |-> FALSE, value |-> value.v, events |-> <<>>]

\* get_env_variable: `not value` is true of None and of "".
get_env_variable(e, var_name) ==
  LET value == e[var_name]
  IN IF ~value.set \/ value.v = ""
     THEN [stop |-> TRUE, value |-> "",
           events |-> <<St("error", 13, NoId, PyStr("Missing environment variable", var_name))>>]
     ELSE [stop |-> FALSE, value |-> value.v, events |-> <<>>]

\* int(text): the decimal texts the environments use; anything else raises.
IsDecimal(text) == text \in {"12", "24"}
int(text) == IF text = "12" THEN 12 ELSE 24

\* init_config: the dict display evaluates its values in order, so the first
\* missing variable stops the run before the next one is read.
init_config(e) ==
  LET page == <<St("set_page_config", 19, NoId, PyStr("DU Status Checker", ""))>>
      key == get_env_variable(e, "OPENAI_API_KEY")
      base == get_env_variable(e, "BASE_URL")
      points == IF e["DEFAULT_POINTS"].set THEN e["DEFAULT_POINTS"].v ELSE "24"
  IN IF key.stop
     THEN [outcome |-> "stopped", config |-> NoConfig, events |-> page \o key.events]
     ELSE IF base.stop
     THEN [outcome |-> "stopped", config |-> NoConfig,
           events |-> page \o key.events \o base.events]
     ELSE IF ~IsDecimal(points)
     THEN [outcome |-> "crashed", config |-> NoConfig,
           events |-> page \o key.events \o base.events]
     ELSE [outcome |-> "ok",
           config |-> [loaded |-> TRUE, OPENAI_API_KEY |-> key.value,
                       BASE_URL |-> base.value, DEFAULT_POINTS |-> int(points)],
           events |-> page \o key.events \o base.events]

\* --------------------------------------------------------------- the input

IsBlankNoStrip(text) == text = <<>>

\* `not du_input.strip()`
IsBlank(text) == strip(text) = <<>>

RECURSIVE MapStrip(_)
MapStrip(parts) ==
  IF parts = <<>> THEN <<>> ELSE <<strip(Head(parts))>> \o MapStrip(Tail(parts))

RECURSIVE Dedup(_)
Dedup(seq) ==
  IF seq = <<>> THEN <<>>
  ELSE LET front == Dedup(SubSeq(seq, 1, Len(seq) - 1))
       IN IF seq[Len(seq)] \in Range(front) THEN front ELSE Append(front, seq[Len(seq)])

ParseIdsDedup(text) == Dedup(SelectSeq(MapStrip(split(text)), LAMBDA du : du # <<>>))

\* [du.strip() for du in du_input.split(",") if du.strip()]
ParseIds(text) == SelectSeq(MapStrip(split(text)), LAMBDA du : du # <<>>)

\* ------------------------------------------------------------ the requests

\* raise_for_status(): an HTTPError for a 4xx or 5xx response.
RaisesForStatus(resp) == resp.code >= 400

\* The try/except of fetch_du_status for one identifier: the value stored
\* and the message rendered.  A body that is not JSON makes response.json()
\* raise; which handler catches it depends on the installed requests: from
\* 2.27 on it is requests.exceptions.JSONDecodeError, a RequestException,
\* before that a plain ValueError.  The source pins no version.
StatusOutcome(resp, jsonErrIsReqExc) ==
  IF resp.err # ""
  THEN [val |-> PyStr("Network Error: ", resp.err), msg |-> "warning"]
  ELSE IF RaisesForStatus(resp)
  THEN [val |-> PyStr("Network Error: ", "HTTPError"), msg |-> "warning"]
  ELSE IF resp.body.t = "malformed"
  THEN IF jsonErrIsReqExc
       THEN [val |-> PyStr("Network Error: ", "JSONDecodeError"), msg |-> "warning"]
       ELSE [val |-> PyStr("Processing Error: ", "JSONDecodeError"), msg |-> "error"]
  ELSE [val |-> resp.body, msg |-> ""]

\* fetch_du_name with only the RequestException handler.
fetch_du_name_one_handler(resp, jsonErrIsReqExc) ==
  IF resp.err # "" \/ RaisesForStatus(resp)
  THEN [raised |-> FALSE, val |-> PyStr("Unknown DU Name", ""), msg |-> "warning"]
  ELSE IF resp.body.t = "malformed"
  THEN IF jsonErrIsReqExc
       THEN [raised |-> FALSE, val |-> PyStr("Unknown DU Name", ""), msg |-> "warning"]
       ELSE [raised |-> TRUE, val |-> PyNone, msg |-> ""]
  ELSE IF resp.body.t # "dict"
  THEN [raised |-> TRUE, val |-> PyNone, msg |-> ""]
  ELSE IF "name" \in DOMAIN resp.body.d
  THEN [raised |-> FALSE, val |-> PyStr(resp.body.d["name"], ""), msg |-> ""]
  ELSE [raised |-> FALSE, val |-> PyStr("Unknown DU Name", ""), msg |-> ""]

\* fetch_du_name: both handlers return, so nothing is raised to the caller.
\* A JSON body that is no object has no .get (AttributeError).
fetch_du_name(resp, jsonErrIsReqExc) ==
  IF resp.err # "" \/ RaisesForStatus(resp)
  THEN [raised |-> FALSE, val |-> PyStr("Unknown DU Name", ""), msg |-> "warning"]
  ELSE IF resp.body.t = "malformed"
  THEN IF jsonErrIsReqExc
       THEN [raised |-> FALSE, val |-> PyStr("Unknown DU Name", ""), msg |-> "warning"]
       ELSE [raised |-> FALSE, val |-> PyStr("Error fetching name", ""), msg |-> "error"]
  ELSE IF resp.body.t # "dict"
  THEN [raised |-> FALSE, val |-> PyStr("Error fetching name", ""), msg |-> "error"]
  ELSE IF "name" \in DOMAIN resp.body.d
  THEN [raised |-> FALSE, val |-> PyStr(resp.body.d["name"], ""), msg |-> ""]
  ELSE [raised |-> FALSE, val |-> PyStr("Unknown DU Name", ""), msg |-> ""]

analyze_with_gpt_swapped(resp) ==
  IF resp.err # ""
  THEN [val |-> PyStr("Error processing analysis", ""), msg |-> "error"]
  ELSE IF "content" \notin DOMAIN resp.body.d
  THEN [val |-> PyStr("Error analyzing data with GPT", ""), msg |-> "error"]
  ELSE [val |-> PyStr(resp.body.d["content"], ""), msg |-> ""]

\* analyze_with_gpt: the text returned and whether st.error was called.
analyze_with_gpt(resp) ==
  IF resp.err # ""
  THEN [val |-> PyStr("Error analyzing data with GPT", ""), msg |-> "error"]
  ELSE IF "content" \notin DOMAIN resp.body.d
  THEN [val |-> PyStr("Error processing analysis", ""), msg |-> "error"]
  ELSE [val |-> PyStr(resp.body.d["content"], ""), msg |-> ""]

\* ------------------------------------------------------------ orchestration

IsNotStr(status) == status.t # "str"

\* isinstance(status, dict)
IsDictInstance(status) == status.t = "dict"

LookupKeysDictOnly(st) == SelectSeq(st.keys, LAMBDA key : st.val[key].t = "dict")

\* The keys `for du_id, status in statuses.items()` visits, in order.
LookupKeys(st) == st.keys

ShouldAnalyzeAlways(collected) == TRUE

\* `if collected_data:`
ShouldAnalyze(collected) == collected.keys # <<>>

\* ------------------------------------------------------------------ the run

\* The st.warning / st.error of an except clause, if one ran.
Msg(kind, line, id, val) ==
  IF kind = "" THEN <<>> ELSE <<St(kind, line, id, PyStr("", val.e))>>

Init ==
  /\ env \in Envs
  /\ jsonErrIsRequestException \in BOOLEAN
  /\ pc = "init_config"
  /\ du_input = <<>>
  /\ button = FALSE
  /\ config = NoConfig
  /\ du_ids = <<>>
  /\ i = 1
  /\ results = EmptyDict
  /\ statuses = EmptyDict
  /\ k = 1
  /\ collected_data = EmptyDict
  /\ events = <<>>

\* A script run starts from nothing but the widget state.
StartRun(text, pressed) ==
  /\ du_input' = text
  /\ button' = pressed
  /\ pc' = "init_config"
  /\ config' = NoConfig
  /\ du_ids' = <<>>
  /\ i' = 1
  /\ results' = EmptyDict
  /\ statuses' = EmptyDict
  /\ k' = 1
  /\ collected_data' = EmptyDict
  /\ events' = <<>>
  /\ UNCHANGED <<env, jsonErrIsRequestException>>

\* The texts one edit away: a character typed at the end, or the last one
\* deleted.  Every text of at most MaxLen characters is some edits away from
\* every other, and a run keeps nothing of the run before it but the text.
Edits(text) ==
  {Append(text, c) : c \in {ch \in Chars : Len(text) < MaxLen}}
    \cup {SubSeq(text, 1, Len(text) - 1) : n \in {m \in {1} : text # <<>>}}

\* The user edits the text area of a finished page: a rerun, button not pressed.
TypeInput ==
  /\ pc = "done"
  /\ \E text \in Edits(du_input) : StartRun(text, FALSE)

\* The user presses "Check DU Status": a rerun in which st.button returns True.
ClickButton ==
  /\ pc = "done"
  /\ StartRun(du_input, TRUE)

\* The browser reloads the page: a new session, the text area empty.
Reload ==
  /\ pc \in {"done", "stopped", "crashed"}
  /\ StartRun(<<>>, FALSE)

\* main, lines 42-60: configuration, then title, caption and text area.
LoadPage ==
  /\ pc = "init_config"
  /\ LET r == init_config(env)
     IN /\ config' = r.config
        /\ IF r.outcome = "ok"
           THEN /\ pc' = "button"
                /\ events' = events \o r.events \o
                     << St("title", 56, NoId, PyStr("DU Status Identification", "")),
                        St("write", 57, NoId, PyStr("Enter Deployment Unit (DU) IDs", "")),
                        St("text_area", 60, NoId, PyStr("Enter DU IDs (comma-separated)", "")) >>
           ELSE /\ pc' = r.outcome
                /\ events' = events \o r.events
  /\ UNCHANGED <<env, jsonErrIsRequestException, du_input, button, du_ids, i, results,
                 statuses, k, collected_data>>

RenderButton == St("button", 129, NoId, PyStr("Check DU Status", ""))

\* Line 129, button not pressed in this run: the script ends.
ButtonIdle ==
  /\ pc = "button"
  /\ ~button
  /\ events' = Append(events, RenderButton)
  /\ pc' = "done"
  /\ UNCHANGED <<env, jsonErrIsRequestException, du_input, button, config, du_ids, i,
                 results, statuses, k, collected_data>>

\* Lines 129-131: pressed with a blank input.
ButtonRejected ==
  /\ pc = "button"
  /\ button
  /\ IsBlank(du_input)
  /\ events' = events \o
       <<RenderButton, St("error", 131, NoId, PyStr("Please enter at least one DU ID.", ""))>>
  /\ pc' = "done"
  /\ UNCHANGED <<env, jsonErrIsRequestException, du_input, button, config, du_ids, i,
                 results, statuses, k, collected_data>>

\* Lines 129-138: pressed with a non-blank input; fetch_du_status is entered.
ButtonAccepted ==
  /\ pc = "button"
  /\ button
  /\ ~IsBlank(du_input)
  /\ events' = Append(events, RenderButton)
  /\ du_ids' = ParseIds(du_input)
  /\ results' = EmptyDict
  /\ i' = 1
  /\ pc' = "fetch_du_status"
  /\ UNCHANGED <<env, jsonErrIsRequestException, du_input, button, config, statuses, k,
                 collected_data>>

\* fetch_du_status, one iteration of its loop (lines 76-99).
FetchStatus ==
  /\ pc = "fetch_du_status"
  /\ i <= Len(du_ids)
  /\ \E resp \in StatusResponses :
       LET du_id == du_ids[i]
           out == StatusOutcome(resp, jsonErrIsRequestException)
       IN /\ results' = DictSet(results, du_id, out.val)
          /\ events' = events \o <<Ev("http", "status", 85, du_id, resp, out.val)>>
                              \o Msg(out.msg, IF out.msg = "warning" THEN 95 ELSE 98, du_id, out.val)
  /\ i' = i + 1
  /\ UNCHANGED <<env, jsonErrIsRequestException, pc, du_input, button, config, du_ids,
                 statuses, k, collected_data>>

\* fetch_du_status returns (line 100); lines 138-142.
FetchStatusReturn ==
  /\ pc = "fetch_du_status"
  /\ i > Len(du_ids)
  /\ statuses' = results
  /\ events' = Append(events, St("subheader", 141, NoId, PyStr("DU Status Results", "")))
  /\ collected_data' = EmptyDict
  /\ k' = 1
  /\ pc' = "render"
  /\ UNCHANGED <<env, jsonErrIsRequestException, du_input, button, config, du_ids, i,
                 results>>

\* One iteration of the loop of lines 144-152 over the k-th identifier of
\* the mapping: its name lookup, its name line, then its status (collected)
\* or its error line.  An exception out of fetch_du_name would end the run.
RenderRow ==
  /\ pc = "render"
  /\ k <= Len(LookupKeys(statuses))
  /\ \E resp \in NameResponses :
       LET du_id == LookupKeys(statuses)[k]
           status == statuses.val[du_id]
           out == fetch_du_name(resp, jsonErrIsRequestException)
           du_name == out.val
           lookup == <<Ev("http", "name", 64, du_id, resp, out.val)>>
                       \o Msg(out.msg, IF out.msg = "warning" THEN 68 ELSE 71, du_id, out.val)
       IN IF out.raised
          THEN /\ events' = events \o lookup
               /\ pc' = "crashed"
               /\ UNCHANGED <<collected_data, k>>
          ELSE /\ pc' = pc
               /\ k' = k + 1
               /\ IF IsDictInstance(status)
                  THEN /\ events' = events \o lookup \o
                            <<St("write", 146, du_id, du_name), St("json", 149, du_id, status)>>
                       /\ collected_data' =
                            DictSet(collected_data, du_id, [name |-> du_name, status |-> status])
                  ELSE /\ events' = events \o lookup \o
                            <<St("write", 146, du_id, du_name), St("error", 152, du_id, status)>>
                       /\ UNCHANGED collected_data
  /\ UNCHANGED <<env, jsonErrIsRequestException, du_input, button, config, du_ids, i,
                 results, statuses>>

\* Lines 155-160: the analysis of a non-empty collected_data.
Analyze ==
  /\ pc = "render"
  /\ k > Len(LookupKeys(statuses))
  /\ ShouldAnalyze(collected_data)
  /\ \E resp \in ChatResponses :
       LET out == analyze_with_gpt(resp)
       IN events' = events
            \o <<St("subheader", 156, NoId, PyStr("LLM Detailed Analysis", "")),
                 Ev("openai", "chat", 104, NoId, resp, out.val)>>
            \o Msg(out.msg, IF resp.err # "" THEN 122 ELSE 125, NoId, out.val)
            \o <<St("write", 159, NoId, PyStr("**Analysis**:", "")),
                 St("markdown", 160, NoId, out.val)>>
  /\ pc' = "done"
  /\ UNCHANGED <<env, jsonErrIsRequestException, du_input, button, config, du_ids, i,
                 results, statuses, k, collected_data>>

\* Line 155 with an empty collected_data: the script ends.
SkipAnalysis ==
  /\ pc = "render"
  /\ k > Len(LookupKeys(statuses))
  /\ ~ShouldAnalyze(collected_data)
  /\ pc' = "done"
  /\ UNCHANGED <<env, jsonErrIsRequestException, du_input, button, config, du_ids, i,
                 results, statuses, k, collected_data, events>>

Next ==
  \/ TypeInput
  \/ ClickButton
  \/ Reload
  \/ LoadPage
  \/ ButtonIdle
  \/ ButtonRejected
  \/ ButtonAccepted
  \/ FetchStatus
  \/ FetchStatusReturn
  \/ RenderRow
  \/ Analyze
  \/ SkipAnalysis

Spec == Init /\ [][Next]_vars

\* ------------------------------------------------------- reading the trace

IsStatusReq(ev) == ev.kind = "http" /\ ev.what = "status"
IsNameReq(ev) == ev.kind = "http" /\ ev.what = "name"
IsChat(ev) == ev.kind = "openai"
IsRequest(ev) == ev.kind \in {"http", "openai"}
\* An identifier's row: its name line, its status JSON or its error line.
IsRow(ev) == ev.kind = "st" /\ ev.line \in {146, 149, 152}
IsWidget(ev) == ev.kind = "st" /\ ev.what \in {"text_area", "button"}

StatusReqs == SelectSeq(events, IsStatusReq)
NameReqs == SelectSeq(events, IsNameReq)
ChatReqs == SelectSeq(events, IsChat)

\* Where in the trace the run's status requests, name lookups, rows and LLM
\* requests are.
StatusAt == {n \in DOMAIN events : IsStatusReq(events[n])}
NameAt == {n \in DOMAIN events : IsNameReq(events[n])}
RowAt == {n \in DOMAIN events : IsRow(events[n])}
ChatAt == {n \in DOMAIN events : IsChat(events[n])}

\* fetch_du_status has returned in this run.
Returned == \E n \in DOMAIN events : events[n].line = 141
\* The rendering loop of this run has ended.
RenderDone ==
  /\ Returned
  /\ pc = "done" \/ (pc = "render" /\ k > Len(statuses.keys))

AllWhitespace(text) == \A n \in DOMAIN text : text[n] \in Whitespace

NetworkFailure(resp) == resp.err # "" \/ resp.code \notin 200..299
OtherFailure(resp) == ~NetworkFailure(resp) /\ resp.body.t = "malformed"
Succeeded(resp) == ~NetworkFailure(resp) /\ ~OtherFailure(resp)

\* ------------------------------------------------------------------ claims

\* C1: fetch_du_status issues one status request per element of the
\* identifier list, whatever the earlier requests' outcomes were, and returns
\* a mapping whose keys are exactly the distinct identifiers; the value of a
\* repeated identifier is what its last request produced.
C1_EveryIdFetched ==
  LET reqs == StatusReqs
  IN /\ pc = "fetch_du_status" => Len(reqs) = i - 1
     /\ (pc \in {"render", "done"} /\ Returned) =>
          /\ Len(reqs) = Len(du_ids)
          /\ \A n \in DOMAIN du_ids : reqs[n].id = du_ids[n]
          /\ DOMAIN statuses.val = Range(du_ids)
          /\ Range(statuses.keys) = Range(du_ids)
          /\ Len(statuses.keys) = Cardinality(Range(du_ids))
          /\ \A id \in Range(du_ids) :
               LET last == CHOOSE n \in DOMAIN du_ids :
                             du_ids[n] = id /\ \A m \in DOMAIN du_ids : du_ids[m] = id => m <= n
               IN statuses.val[id] = reqs[last].val

\* C1 witness: an identifier given twice whose first request failed and whose
\* second succeeded; the mapping holds the second outcome.
C1_Witness ==
  /\ Returned
  /\ Len(du_ids) = 2 /\ du_ids[1] = du_ids[2]
  /\ NetworkFailure(StatusReqs[1].resp)
  /\ Succeeded(StatusReqs[2].resp)
  /\ statuses.val[du_ids[1]].t = "dict"

\* C2: when the rendering loop has ended, collected_data has an entry for X
\* exactly when the status mapping holds a JSON object for X; the entry's
\* status is that object and its name is what the name lookup of X returned.
C2_CollectedIffObject ==
  RenderDone =>
    /\ \A X \in Range(du_ids) \cup DOMAIN collected_data.val \cup DOMAIN statuses.val :
         X \in DOMAIN collected_data.val
           <=> (X \in DOMAIN statuses.val /\ statuses.val[X].t = "dict")
    /\ \A X \in DOMAIN collected_data.val :
         /\ collected_data.val[X].status = statuses.val[X]
         /\ \E n \in NameAt :
              events[n].id = X /\ collected_data.val[X].name = events[n].val

\* C2 witness: an identifier collected although its name lookup failed, next
\* to one whose status is JSON but no object and is left out.
C2_Witness ==
  /\ RenderDone
  /\ \E X \in DOMAIN collected_data.val :
       \E n \in DOMAIN NameReqs : NameReqs[n].id = X /\ NetworkFailure(NameReqs[n].resp)
  /\ \E Y \in DOMAIN statuses.val : statuses.val[Y].t = "list"

\* C3: a run asks the LLM at most once, and a finished run has asked it
\* exactly when collected_data is not empty; with only error strings in the
\* status mapping it has not.
C3_AnalyzeIffCollected ==
  LET chats == Cardinality(ChatAt)
  IN /\ chats <= 1
     /\ pc = "done" => (chats = 1 <=> DOMAIN collected_data.val # {})
     /\ (pc = "done" /\ \A X \in DOMAIN statuses.val : statuses.val[X].t = "str")
          => chats = 0

\* C3 witness: a finished click with two identifiers, every status an error
\* string, and no LLM request.
C3_Witness ==
  /\ pc = "done"
  /\ Returned
  /\ Len(statuses.keys) = 2
  /\ \A X \in DOMAIN statuses.val : statuses.val[X].t = "str"
  /\ Len(ChatReqs) = 0

\* C4: a press with an empty or whitespace-only text never gets past the
\* validation: no request of any kind, and the finished run shows the
\* validation error.
C4_BlankRejected ==
  (button /\ AllWhitespace(du_input)) =>
    /\ \A n \in DOMAIN events : ~IsRequest(events[n])
    /\ pc \in {"init_config", "button", "done", "stopped", "crashed"}
    /\ (pc = "done" => \E n \in DOMAIN events : events[n].what = "error" /\ events[n].line = 131)

\* C4 witness: a finished press with a text of spaces only.
C4_Witness ==
  /\ button
  /\ du_input # <<>>
  /\ AllWhitespace(du_input)
  /\ pc = "done"

NameSentinels == {PyStr("Unknown DU Name", ""), PyStr("Error fetching name", "")}

\* C5: a name lookup that fails (transport error, non-2xx, a body that is
\* not JSON or not an object) returns one of the two sentinels; one that
\* succeeds without a name field returns "Unknown DU Name"; none raises, so
\* every lookup is followed by its row and the loop goes on.
C5_NameLookupNeverRaises ==
  LET N == NameAt
  IN /\ \A n \in N :
          LET resp == events[n].resp
          IN /\ (NetworkFailure(resp) \/ resp.body.t # "dict") => events[n].val \in NameSentinels
             /\ (Succeeded(resp) /\ resp.body.t = "dict" /\ "name" \notin DOMAIN resp.body.d)
                  => events[n].val = PyStr("Unknown DU Name", "")
     /\ pc = "crashed" => \A n \in DOMAIN events : ~IsRequest(events[n])
     /\ RenderDone => Cardinality(N) = Len(statuses.keys)

\* C5 witness: the first identifier's lookup got a body that is no object,
\* and the second identifier was looked up after it.
C5_Witness ==
  /\ Len(NameReqs) = 2
  /\ NameReqs[1].resp.body.t = "list"
  /\ NameReqs[1].val = PyStr("Error fetching name", "")
  /\ NameReqs[2].id # NameReqs[1].id

\* C6: what is stored for an identifier follows from its own request: a
\* network-level failure stores "Network Error:", any other failure stores
\* "Processing Error:", success stores the parsed JSON.
C6_StoredByOutcome ==
  \A n \in StatusAt :
    LET resp == events[n].resp
        stored == events[n].val
    IN /\ NetworkFailure(resp) => (stored.t = "str" /\ stored.s = "Network Error: ")
       /\ OtherFailure(resp) => (stored.t = "str" /\ stored.s = "Processing Error: ")
       /\ Succeeded(resp) => stored = resp.body

\* C7: a failed LLM call still ends the run, shows exactly the placeholder of
\* its kind of failure as the analysis, and leaves every identifier's row,
\* rendered before the call, on the page.
C7_AnalysisFailureKeepsRows ==
  \A c \in ChatAt :
      /\ pc = "done"
      /\ events[Len(events)].what = "markdown"
      /\ events[c].resp.err # ""
           => events[Len(events)].val = PyStr("Error analyzing data with GPT", "")
      /\ (events[c].resp.err = "" /\ "content" \notin DOMAIN events[c].resp.body.d)
           => events[Len(events)].val = PyStr("Error processing analysis", "")
      /\ \A X \in DOMAIN statuses.val :
           /\ \E n \in 1..(c - 1) : events[n].line = 146 /\ events[n].id = X
           /\ \E n \in 1..(c - 1) :
                events[n].line \in {149, 152} /\ events[n].id = X
                  /\ events[n].val = statuses.val[X]

\* C7 witness: a provider error after two identifiers were rendered.
C7_Witness ==
  /\ pc = "done"
  /\ Len(ChatReqs) = 1
  /\ ChatReqs[1].resp.err # ""
  /\ Len(statuses.keys) = 2

RequiredMissing ==
  {v \in {"OPENAI_API_KEY", "BASE_URL"} : ~env[v].set \/ env[v].v = ""}

\* C8: with a required setting missing or empty, no configuration is ever
\* returned, no widget is rendered and no request is issued, and the run
\* stops with a message naming the missing variable (the first one read).
C8_MissingConfigHalts ==
  RequiredMissing # {} =>
    /\ config = NoConfig
    /\ \A n \in DOMAIN events : ~IsWidget(events[n]) /\ ~IsRequest(events[n])
    /\ pc \in {"init_config", "stopped"}
    /\ pc = "stopped" =>
         /\ events[Len(events)].what = "error"
         /\ events[Len(events)].val.e =
              IF "OPENAI_API_KEY" \in RequiredMissing THEN "OPENAI_API_KEY" ELSE "BASE_URL"

\* C8 witness: the key is set, the base URL is the empty string, and the run
\* has stopped.
C8_Witness ==
  /\ pc = "stopped"
  /\ env["OPENAI_API_KEY"] = EnvVal("sk-key")
  /\ env["BASE_URL"] = EnvVal("")

\* The comma-separated tokens of a text, read off the text's positions:
\* a segment runs between two neighbouring separators (a comma, or an end
\* of the text), and its token runs from its first to its last character
\* that is no whitespace.
Separators(text) == {p \in DOMAIN text : text[p] = ","} \cup {0, Len(text) + 1}
SegmentEnd(text, b) ==
  CHOOSE q \in Separators(text) : q > b /\ \A r \in Separators(text) : r > b => q <= r
Solid(text, b) == {j \in (b + 1)..(SegmentEnd(text, b) - 1) : text[j] \notin Whitespace}
TokenStarts(text) == {b \in Separators(text) \ {Len(text) + 1} : Solid(text, b) # {}}
TokenAt(text, b) ==
  LET lo == CHOOSE j \in Solid(text, b) : \A j2 \in Solid(text, b) : j <= j2
      hi == CHOOSE j \in Solid(text, b) : \A j2 \in Solid(text, b) : j2 <= j
  IN SubSeq(text, lo, hi)
IsTokenList(ids, text) ==
  /\ Len(ids) = Cardinality(TokenStarts(text))
  /\ \A b \in TokenStarts(text) :
       ids[Cardinality({c \in TokenStarts(text) : c <= b})] = TokenAt(text, b)

\* C9: once an input has passed the non-blank check, du_ids is the list of its
\* trimmed non-empty comma-separated tokens, in order and with repeats, and
\* the status requests are issued for its elements one by one, in order.
C9_IdsAreTokens ==
  (button /\ ~AllWhitespace(du_input) /\ pc \in {"fetch_du_status", "render", "done"}) =>
    LET reqs == StatusReqs
    IN /\ IsTokenList(du_ids, du_input)
       /\ Len(reqs) <= Len(du_ids)
       /\ \A n \in DOMAIN reqs : reqs[n].id = du_ids[n]
       /\ Returned => Len(reqs) = Len(du_ids)

\* C9 witness: "a,a" was fetched: two requests for the same identifier.
C9_Witness ==
  /\ Returned
  /\ du_input = <<"a", ",", "a">>
  /\ Len(StatusReqs) = 2
  /\ StatusReqs[1].id = <<"a">> /\ StatusReqs[2].id = <<"a">>

\* C10 as stated: status requests, then all name lookups (one per identifier
\* of the mapping), then all rows, then the LLM request.
C10_PhasesStrictlyOrdered ==
  LET S == StatusAt
      N == NameAt
      R == RowAt
      C == ChatAt
  IN /\ \A m \in S : \A n \in N : m < n
     /\ RenderDone =>
          /\ \A X \in DOMAIN statuses.val : Cardinality({n \in N : events[n].id = X}) = 1
          /\ Cardinality(N) = Cardinality(DOMAIN statuses.val)
     /\ \A m \in N : \A n \in R : m < n
     /\ \A m \in R : \A n \in C : m < n
     /\ \A n \in C : \A X \in DOMAIN statuses.val : \E m \in R : m < n /\ events[m].id = X

\* C10 amended: status requests, then identifier by identifier a name lookup
\* followed by that identifier's row (a later identifier's lookup comes after
\* the earlier identifiers' rows), then the LLM request.
C10_PhasesPerIdentifier ==
  LET S == StatusAt
      N == NameAt
      R == RowAt
      C == ChatAt
  IN /\ \A m \in S : \A n \in N : m < n
     /\ RenderDone =>
          /\ \A X \in DOMAIN statuses.val : Cardinality({n \in N : events[n].id = X}) = 1
          /\ Cardinality(N) = Cardinality(DOMAIN statuses.val)
     /\ \A m \in N : \A n \in R : events[m].id = events[n].id => m < n
     /\ \A m \in N : \A n \in N :
          m < n => \E r \in R : m < r /\ r < n /\ events[r].id = events[m].id
     /\ \A m \in R : \A n \in C : m < n
     /\ \A n \in C : \A X \in DOMAIN statuses.val : \E m \in R : m < n /\ events[m].id = X

\* C10 witness: a finished click with two identifiers, one of them with an
\* error string for a status, and an LLM request.
C10_Witness ==
  /\ pc = "done"
  /\ Len(statuses.keys) = 2
  /\ \E X \in DOMAIN statuses.val : statuses.val[X].t = "str"
  /\ Len(NameReqs) = 2
  /\ Len(ChatReqs) = 1

====
